---- MODULE Spec2Model ----
(***************************************************************************)
(* A model of the ordering and formatting helpers of cpppo's misc.py:      *)
(*   centeraxis  -- center a string in a field around an axis character    *)
(*   natural     -- natural sort key                                       *)
(*   nan_first, nan_last -- sort keys collating None/NaN to one end        *)
(*                                                                         *)
(* A Python str is a sequence of one-character strings; a Python tuple or  *)
(* list is a sequence.  Each entry point is called by a client that draws  *)
(* its arguments in the initial state.                                     *)
(***************************************************************************)
EXTENDS Integers, Sequences, FiniteSets, TLC

VARIABLES
    fn,         \* the entry point the client calls
    pc,         \* position inside the call
    \* ---- centeraxis: parameters and locals
    text,       \* the caller's argument for string
    string, width, axis, fillchar, reverse, clip,
    pos, left, rght, lwid, rwid,
    result,
    \* ---- natural: two values, their keys and the comparison of the keys
    a, b, keyA, keyB, cmp,
    \* ---- sorted( items, key=natural )
    items, sortedItems,
    \* ---- sorted( nums, key=nan_first ) and sorted( nums, key=nan_last )
    nums, keys, sortedNums

axisVars == <<text, string, width, axis, fillchar, reverse, clip,
              pos, left, rght, lwid, rwid, result>>

natVars == <<a, b, keyA, keyB, cmp, items, sortedItems>>

nanVars == <<nums, keys, sortedNums>>

vars == <<fn, pc, axisVars, natVars, nanVars>>

----------------------------------------------------------------------------
(* Bounds of the model *)

MaxLen == 5
MaxWidth == 6

----------------------------------------------------------------------------
(* Python built-ins used by the code *)

Min(x, y) == IF x < y THEN x ELSE y
Max(x, y) == IF x < y THEN y ELSE x

\* All sequences over S of length at most n
SeqsUpTo(S, n) == UNION { [1..k -> S] : k \in 0..n }

\* Python's normalisation of a slice bound i for a sequence of length n
SliceBound(i, n) == IF i < 0 THEN Max(i + n, 0) ELSE Min(i, n)

\* s[start:]
SliceFrom(s, start) == SubSeq(s, SliceBound(start, Len(s)) + 1, Len(s))

\* s[:stop]
SliceTo(s, stop) == SubSeq(s, 1, SliceBound(stop, Len(s)))

\* s[start:stop]
Slice(s, start, stop) ==
    SubSeq(s, SliceBound(start, Len(s)) + 1, SliceBound(stop, Len(s)))

\* c * n : n copies of the character c (the empty string when n <= 0)
Repeat(c, n) == [i \in 1..n |-> c]

\* s.find(c): the lowest 0-based index of c in s, or -1
Find(s, c) ==
    IF \E i \in 1..Len(s) : s[i] = c
    THEN (CHOOSE i \in 1..Len(s) :
              s[i] = c /\ \A j \in 1..(i - 1) : s[j] # c) - 1
    ELSE -1

\* s.rfind(c): the highest 0-based index of c in s, or -1
RFind(s, c) ==
    IF \E i \in 1..Len(s) : s[i] = c
    THEN (CHOOSE i \in 1..Len(s) :
              s[i] = c /\ \A j \in (i + 1)..Len(s) : s[j] # c) - 1
    ELSE -1

----------------------------------------------------------------------------
(* centeraxis *)

\* A faulty variant: the extra unit of an odd width goes to the left side
left_right_swapped(w) == <<w - w \div 2, w \div 2>>

\* The default left_right argument: lambda w: (w // 2, w - w // 2)
left_right(w) == <<w \div 2, w - w \div 2>>

\* pos = string.find( axis ) if reverse else string.rfind( axis )
Locate(s, ax, rev) == IF rev THEN Find(s, ax) ELSE RFind(s, ax)

\* A faulty variant: the absent axis is placed at the start without the fill prefix
NoAxisNoPrefix(s, fill, rev) ==
    IF rev THEN <<Len(s), s>>
    ELSE <<0, s>>

\* A faulty variant: the absent axis is placed past the end whatever reverse is
NoAxisSymmetric(s, fill, rev) == <<Len(s), s>>

\* The rebinding of (pos, string) when the axis character is absent
NoAxis(s, fill, rev) ==
    IF rev THEN <<Len(s), s>>
    ELSE <<0, <<fill>> \o s>>

\* left[-lwid:]
ClipLeft(l, lw) == SliceFrom(l, 0 - lw)

\* rght[:rwid]
ClipRght(r, rw) == SliceTo(r, rw)

\* The left segment after padding or clipping
PadLeftSeg(l, lw, fill, cl) ==
    IF Len(l) < lw THEN Repeat(fill, lw - Len(l)) \o l
    ELSE IF cl THEN ClipLeft(l, lw)
    ELSE l

\* The right segment after padding or clipping
PadRghtSeg(r, rw, fill, cl) ==
    IF Len(r) < rw THEN r \o Repeat(fill, rw - Len(r))
    ELSE IF cl THEN ClipRght(r, rw)
    ELSE r

AxisAlphabet == {"a", "b", "."}
AxisSamples == { <<"1", "2", "3", ".", "4", "5", "6">>, <<"a", "b", "c">> }
AxisStrings == SeqsUpTo(AxisAlphabet, MaxLen) \cup AxisSamples
AxisWidths == 0..MaxWidth \cup {10}
NoStr == <<>>

\* Values of the variables of the entry points that are not called
NoValue == [type |-> "none", text |-> <<>>, num |-> 0, id |-> 0, hashing |-> "ok"]
NoKey == [exc |-> "unset", key |-> <<>>]

InitNaturalIdle ==
    /\ a = NoValue /\ b = NoValue /\ keyA = NoKey /\ keyB = NoKey
    /\ cmp = "none"
    /\ items = <<>> /\ sortedItems = <<>>

InitNanIdle == nums = <<>> /\ keys = <<>> /\ sortedNums = <<>>

InitAxis ==
    /\ fn = "centeraxis"
    /\ pc = "find"
    /\ text \in AxisStrings
    /\ string = text
    /\ width \in AxisWidths
    /\ axis = "."
    /\ fillchar = " "
    /\ reverse \in BOOLEAN
    /\ clip \in BOOLEAN
    /\ pos = -1
    /\ left = NoStr
    /\ rght = NoStr
    /\ lwid = 0
    /\ rwid = 0
    /\ result = NoStr
    /\ InitNaturalIdle
    /\ InitNanIdle

\* string = str( string ); pos = string.find( axis ) if reverse else string.rfind( axis )
FindAxis ==
    /\ fn = "centeraxis"
    /\ pc = "find"
    /\ pos' = Locate(string, axis, reverse)
    /\ pc' = IF pos' < 0 THEN "noaxis" ELSE "split"
    /\ UNCHANGED <<fn, natVars, nanVars, text, string, width, axis, fillchar, reverse, clip,
                   left, rght, lwid, rwid, result>>

\* if pos < 0: the axis is taken just past the end (reverse) or, with one
\* fill character prefixed, at the start
FixNoAxis ==
    /\ fn = "centeraxis"
    /\ pc = "noaxis"
    /\ pos' = NoAxis(string, fillchar, reverse)[1]
    /\ string' = NoAxis(string, fillchar, reverse)[2]
    /\ pc' = "split"
    /\ UNCHANGED <<fn, natVars, nanVars, text, width, axis, fillchar, reverse, clip,
                   left, rght, lwid, rwid, result>>

\* left, rght = string[0:pos], string[pos:]; lwid, rwid = left_right( width )
Split ==
    /\ fn = "centeraxis"
    /\ pc = "split"
    /\ left' = Slice(string, 0, pos)
    /\ rght' = SliceFrom(string, pos)
    /\ lwid' = left_right(width)[1]
    /\ rwid' = left_right(width)[2]
    /\ pc' = "padleft"
    /\ UNCHANGED <<fn, natVars, nanVars, text, string, width, axis, fillchar, reverse, clip,
                   pos, result>>

\* if len( left ) < lwid: pad at the start; elif clip: left = left[-lwid:]
PadLeft ==
    /\ fn = "centeraxis"
    /\ pc = "padleft"
    /\ left' = PadLeftSeg(left, lwid, fillchar, clip)
    /\ pc' = "padrght"
    /\ UNCHANGED <<fn, natVars, nanVars, text, string, width, axis, fillchar, reverse, clip,
                   pos, rght, lwid, rwid, result>>

\* if len( rght ) < rwid: pad at the end; elif clip: rght = rght[:rwid]
PadRght ==
    /\ fn = "centeraxis"
    /\ pc = "padrght"
    /\ rght' = PadRghtSeg(rght, rwid, fillchar, clip)
    /\ pc' = "return"
    /\ UNCHANGED <<fn, natVars, nanVars, text, string, width, axis, fillchar, reverse, clip,
                   pos, left, lwid, rwid, result>>

\* return left+rght
Return ==
    /\ fn = "centeraxis"
    /\ pc = "return"
    /\ result' = left \o rght
    /\ pc' = "done"
    /\ UNCHANGED <<fn, natVars, nanVars, text, string, width, axis, fillchar, reverse, clip,
                   pos, left, rght, lwid, rwid>>

NextAxis == FindAxis \/ FixNoAxis \/ Split \/ PadLeft \/ PadRght \/ Return

SpecAxis == InitAxis /\ [][NextAxis]_vars

----------------------------------------------------------------------------
(* Claims about centeraxis *)

HasAxis(s, ax) == \E i \in 1..Len(s) : s[i] = ax

\* The segments produced by the split, before padding and clipping
SegLeft == Slice(string, 0, pos)
SegRght == SliceFrom(string, pos)

LastN(s, n) == SubSeq(s, Len(s) - n + 1, Len(s))
FirstN(s, n) == SubSeq(s, 1, n)

AxisDone == fn = "centeraxis" /\ pc = "done"

\* C1: with clip=True and the default left_right, the returned string has
\* exactly width characters, for every string, every width >= 0 and both
\* values of reverse.
C1_ClipLengthIsWidth ==
    (AxisDone /\ clip) => Len(result) = width

\* C8: with clip=True an overflowing left segment is cut to exactly its last
\* lwid characters and an overflowing right segment to exactly its first
\* rwid characters, for every lwid >= 0 and rwid >= 0.
C8_ClipKeepsNearestAxis ==
    (AxisDone /\ clip) =>
        /\ Len(SegLeft) > lwid => left = LastN(SegLeft, lwid)
        /\ Len(SegRght) > rwid => rght = FirstN(SegRght, rwid)

\* C4 (as stated): centeraxis('abc', 4, axis='.') with the default options
\* returns a result of exactly 4 characters.
C4_AbcIsFourChars ==
    (AxisDone /\ text = <<"a", "b", "c">> /\ width = 4 /\ axis = "."
        /\ ~reverse /\ ~clip)
    => Len(result) = 4

\* C4 (amended): centeraxis('abc', 4, axis='.') with the default options
\* returns the 6 characters '   abc': lwid = 2 fill characters, the prefixed
\* fill character, then the unclipped string.
C4_AbcOverflows ==
    (AxisDone /\ text = <<"a", "b", "c">> /\ width = 4 /\ axis = "."
        /\ ~reverse /\ ~clip)
    => result = <<" ", " ", " ", "a", "b", "c">>

C4_Witness ==
    /\ AxisDone /\ text = <<"a", "b", "c">> /\ width = 4 /\ axis = "."
    /\ ~reverse /\ ~clip
    /\ Len(result) = 6

\* The 0-based index p is the axis occurrence centeraxis selects in s: the
\* last one by default, the first one when reverse
Selected(s, ax, rev, p) ==
    /\ p \in 0..(Len(s) - 1)
    /\ s[p + 1] = ax
    /\ IF rev THEN \A j \in 1..p : s[j] # ax
              ELSE \A j \in (p + 2)..Len(s) : s[j] # ax

\* C5: with clip=False, when the part before the selected axis occurrence has
\* at most width // 2 characters, the result is the string padded with fill
\* characters on both sides so that this occurrence sits at index width // 2;
\* when the part from the axis onward fits in width - width // 2 characters
\* the result has exactly width characters; centeraxis('123.456', 10) is
\* '  123.456 '.
C5_AxisAtHalfWidth ==
    (AxisDone /\ ~clip) =>
        /\ \A p \in 0..(Len(text) - 1) :
              (Selected(text, axis, reverse, p) /\ p <= width \div 2) =>
                  /\ result[width \div 2 + 1] = axis
                  /\ result = Repeat(fillchar, width \div 2 - p) \o text
                                \o Repeat(fillchar,
                                     (width - width \div 2) - (Len(text) - p))
                  /\ (Len(text) - p <= width - width \div 2)
                        => Len(result) = width
        /\ (text = <<"1", "2", "3", ".", "4", "5", "6">> /\ width = 10)
              => result = <<" ", " ", "1", "2", "3", ".", "4", "5", "6", " ">>

C5_Witness ==
    /\ AxisDone /\ ~clip /\ ~reverse
    /\ text = <<"1", "2", "3", ".", "4", "5", "6">> /\ width = 10
    /\ Len(result) = 10 /\ result[6] = "."

----------------------------------------------------------------------------
(* natural *)

\* A Python value: its class name, and what the code reads of it.  text is
\* the content of a str; num is the value of an int or bool, the value in
\* tenths of a float, and the hash of a hashable object (equal objects hash
\* equal) or the content of an unhashable one; id is the identity of an
\* object (0 where the code cannot tell two equal values apart); hashing is
\*   "ok"     hash( v ) returns,
\*   "none"   v.__hash__ is None (list, dict, set),
\*   "raises" v.__hash__ is a method and hash( v ) raises TypeError (a tuple
\*            holding a list).
Value(t, s, n, i, h) == [type |-> t, text |-> s, num |-> n, id |-> i, hashing |-> h]

PyStrValue(s) == Value("str", s, 0, 0, "ok")
PyInt(n) == Value("int", <<>>, n, 0, "ok")
PyFloat(tenths) == Value("float", <<>>, tenths, 0, "ok")
PyNone == Value("NoneType", <<>>, 7, 0, "ok")
PyBool(n) == Value("bool", <<>>, n, 0, "ok")

\* The characters of the model in code point order
Ascii == <<" ", "-", ".",
           "0", "1", "2", "3", "4", "5", "6", "7", "8", "9",
           "A", "B", "C", "D", "E", "F", "G", "H", "I", "J", "K", "L", "M",
           "N", "O", "P", "Q", "R", "S", "T", "U", "V", "W", "X", "Y", "Z",
           "a", "b", "c", "d", "e", "f", "g", "h", "i", "j", "k", "l", "m",
           "n", "o", "p", "q", "r", "s", "t", "u", "v", "w", "x", "y", "z">>

\* ord( c ), up to an order-preserving renumbering
Ord(c) == CHOOSE i \in 1..Len(Ascii) : Ascii[i] = c

\* c.isdigit()
IsDigit(c) == Ord(c) >= Ord("0") /\ Ord(c) <= Ord("9")

\* int( c ) of a digit character
IntOf(c) == Ord(c) - Ord("0")

\* c.lower()
Lower(c) ==
    IF Ord(c) >= Ord("A") /\ Ord(c) <= Ord("Z")
    THEN Ascii[Ord(c) - Ord("A") + Ord("a")]
    ELSE c

\* str( n ) of an int n >= 0
RECURSIVE NatStr(_)
NatStr(n) ==
    IF n < 10 THEN <<Ascii[Ord("0") + n]>>
    ELSE NatStr(n \div 10) \o <<Ascii[Ord("0") + (n % 10)]>>

\* str( n ) of an int
IntStr(n) == IF n < 0 THEN <<"-">> \o NatStr(0 - n) ELSE NatStr(n)

\* str( x ) of a float with one decimal place, x = tenths / 10
FloatStr(tenths) ==
    IF tenths < 0
    THEN <<"-">> \o NatStr((0 - tenths) \div 10) \o <<".">>
               \o NatStr((0 - tenths) % 10)
    ELSE NatStr(tenths \div 10) \o <<".">> \o NatStr(tenths % 10)

\* str( v ) of a numeric value
PyStr(v) == IF v.type = "float" THEN FloatStr(v.num) ELSE IntStr(v.num)

\* v.__class__.__name__
ClassName(v) ==
    CASE v.type = "NoneType" -> <<"N", "o", "n", "e", "T", "y", "p", "e">>
      [] v.type = "bool" -> <<"b", "o", "o", "l">>
      [] v.type = "tuple" -> <<"t", "u", "p", "l", "e">>
      [] v.type = "list" -> <<"l", "i", "s", "t">>
      [] v.type = "str" -> <<"s", "t", "r">>
      [] v.type = "int" -> <<"i", "n", "t">>
      [] v.type = "float" -> <<"f", "l", "o", "a", "t">>

\* natural.num_types and natural.str_type (Python 3)
num_types == {"float", "int"}
str_type == "str"

\* The width of the default fmt, "%9s"
FmtWidth == 9

\* An item of res: an int (isnum) or a str
NumItem(n) == [isnum |-> TRUE, n |-> n, s |-> <<>>]
StrItem(s) == [isnum |-> FALSE, n |-> 0, s |-> s]

\* A faulty variant: the number is rendered without padding
FmtUnpadded(n) == IntStr(n)

\* fmt % itm: str( itm ) right-justified in at least FmtWidth characters
Fmt(n) == Repeat(" ", FmtWidth - Len(IntStr(n))) \o IntStr(n)

\* The loop over the characters of a str, from its i-th, with res so far
RECURSIVE Scan(_, _, _)
Scan(s, i, res) ==
    IF i > Len(s) THEN res
    ELSE LET c == s[i] IN
         IF IsDigit(c)
         THEN IF res # <<>> /\ res[Len(res)].isnum
              THEN Scan(s, i + 1,
                        [res EXCEPT ![Len(res)] = NumItem(@.n * 10 + IntOf(c))])
              ELSE Scan(s, i + 1, Append(res, NumItem(IntOf(c))))
         ELSE Scan(s, i + 1, Append(res, StrItem(<<Lower(c)>>)))

\* tuple( fmt % itm if type( itm ) in num_types else itm for itm in res )
Render(res) ==
    [i \in 1..Len(res) |->
        IF res[i].isnum THEN StrItem(Fmt(res[i].n)) ELSE res[i]]

\* hasattr( string, '__hash__' ) and string.__hash__ is not None
HasHash(v) == v.hashing # "none"

\* A faulty variant: the identity of every object is its id
IdentityById(v) == v.id

\* hash( string ) if it has a __hash__, else id( string )
Identity(v) == IF HasHash(v) THEN v.num ELSE v.id

Returns(k) == [exc |-> "none", key |-> k]
Raises(e) == [exc |-> e, key |-> <<>>]

\* natural( string ) with the default fmt: the key returned or the
\* exception raised
natural(v) ==
    LET val == IF v.type \in num_types THEN PyStrValue(PyStr(v)) ELSE v
    IN  IF val.type # str_type
        THEN IF HasHash(val) /\ val.hashing = "raises"
             THEN Raises("TypeError")
             ELSE Returns(Render(<<StrItem(<<>>), StrItem(ClassName(val)),
                                   NumItem(Identity(val))>>))
        ELSE Returns(Render(Scan(val.text, 1, <<>>)))

\* The comparison of two str: "lt", "eq" or "gt"
RECURSIVE StrCmp(_, _)
StrCmp(s, t) ==
    IF s = <<>> \/ t = <<>>
    THEN IF s = t THEN "eq" ELSE IF s = <<>> THEN "lt" ELSE "gt"
    ELSE IF Ord(Head(s)) < Ord(Head(t)) THEN "lt"
    ELSE IF Ord(Head(s)) > Ord(Head(t)) THEN "gt"
    ELSE StrCmp(Tail(s), Tail(t))

\* The comparison of two items of a tuple: an int and a str do not compare
ItemCmp(x, y) ==
    IF x.isnum # y.isnum THEN "TypeError"
    ELSE IF x.isnum
         THEN IF x.n < y.n THEN "lt" ELSE IF x.n > y.n THEN "gt" ELSE "eq"
         ELSE StrCmp(x.s, y.s)

\* The comparison of two tuples: decided by the first items that differ,
\* else by the lengths
RECURSIVE TupleCmp(_, _)
TupleCmp(x, y) ==
    IF x = <<>> \/ y = <<>>
    THEN IF x = y THEN "eq" ELSE IF x = <<>> THEN "lt" ELSE "gt"
    ELSE IF Head(x) = Head(y) THEN TupleCmp(Tail(x), Tail(y))
    ELSE ItemCmp(Head(x), Head(y))

\* The comparison of the outcomes of two calls of natural
KeyCmp(ka, kb) ==
    IF ka.exc # "none" THEN ka.exc
    ELSE IF kb.exc # "none" THEN kb.exc
    ELSE TupleCmp(ka.key, kb.key)

\* list.insert of x into the sorted list srt, after the items not greater
RECURSIVE Insert(_, _)
Insert(srt, x) ==
    IF srt = <<>> THEN <<x>>
    ELSE IF KeyCmp(natural(PyStrValue(x)), natural(PyStrValue(Head(srt)))) = "lt"
         THEN <<x>> \o srt
         ELSE <<Head(srt)>> \o Insert(Tail(srt), x)

\* sorted( its, key=natural ) of a sequence of str: a stable sort
RECURSIVE Sorted(_)
Sorted(its) ==
    IF its = <<>> THEN <<>>
    ELSE Insert(Sorted(SubSeq(its, 1, Len(its) - 1)), its[Len(its)])

(* The arguments the client draws *)

MaxStrLen == 2

NatAlphabet == {"0", "1", "9", "a", "Z"}
Doctest == <<<<"Z">>, <<"a">>, <<"1", "0", "t", "h">>, <<"1", "s", "t">>, <<"9">>>>
NatSamples ==
    { Doctest[i] : i \in 1..Len(Doctest) }
    \cup { <<"9", "9", "9", "9", "9", "9", "9", "9", "9">>,
           <<"1", "0", "0", "0", "0", "0", "0", "0", "0", "0">> }
NatStrings == SeqsUpTo(NatAlphabet, MaxStrLen) \cup NatSamples

\* Values that are not objects with an identity of their own
Plain ==
    { PyStrValue(s) : s \in NatStrings }
    \cup { PyInt(n) : n \in {-12, 1, 9, 10} }
    \cup { PyFloat(t) : t \in {10, 90, 93} }
    \cup { PyNone, PyBool(0), PyBool(1) }

\* The objects that may live at identity i: two hashable tuples, two lists
\* and a tuple holding a list
ObjectsAt(i) ==
    { Value("tuple", <<>>, h, i, "ok") : h \in {-3, 5} }
    \cup { Value("list", <<>>, c, i, "none") : c \in {1, 2} }
    \cup { Value("tuple", <<>>, 1, i, "raises") }

\* The orders in which the doctest's items may be given
DoctestOrders ==
    { [i \in 1..Len(Doctest) |-> Doctest[p[i]]] :
        p \in { q \in [1..Len(Doctest) -> 1..Len(Doctest)] :
                  \A i, j \in 1..Len(Doctest) : i # j => q[i] # q[j] } }

InitAxisIdle ==
    /\ text = NoStr /\ string = NoStr /\ width = 0 /\ axis = "." /\ fillchar = " "
    /\ reverse = FALSE /\ clip = FALSE /\ pos = -1
    /\ left = NoStr /\ rght = NoStr /\ lwid = 0 /\ rwid = 0 /\ result = NoStr

\* Two values are compared by their keys (b may be the object a), or the
\* doctest's items are sorted
InitNatural ==
    /\ InitAxisIdle
    /\ InitNanIdle
    /\ pc = "call"
    /\ keyA = NoKey /\ keyB = NoKey /\ cmp = "none" /\ sortedItems = <<>>
    /\ \/ /\ fn = "natural"
          /\ a \in Plain \cup ObjectsAt(1)
          /\ b \in Plain \cup ObjectsAt(2) \cup {a}
          /\ items = <<>>
       \/ /\ fn = "sorted"
          /\ a = NoValue /\ b = NoValue
          /\ items \in DoctestOrders

\* keyA = natural( a ); keyB = natural( b )
CallNatural ==
    /\ fn = "natural"
    /\ pc = "call"
    /\ keyA' = natural(a)
    /\ keyB' = natural(b)
    /\ pc' = "compare"
    /\ UNCHANGED <<fn, axisVars, nanVars, a, b, cmp, items, sortedItems>>

\* keyA < keyB, keyA == keyB, keyA > keyB
CompareKeys ==
    /\ fn = "natural"
    /\ pc = "compare"
    /\ cmp' = KeyCmp(keyA, keyB)
    /\ pc' = "done"
    /\ UNCHANGED <<fn, axisVars, nanVars, a, b, keyA, keyB, items, sortedItems>>

\* sorted( items, key=natural )
SortItems ==
    /\ fn = "sorted"
    /\ pc = "call"
    /\ sortedItems' = Sorted(items)
    /\ pc' = "done"
    /\ UNCHANGED <<fn, axisVars, nanVars, a, b, keyA, keyB, cmp, items>>

NextNatural == CallNatural \/ CompareKeys \/ SortItems

SpecNatural == InitNatural /\ [][NextNatural]_vars

----------------------------------------------------------------------------
(* Claims about natural *)

\* a == b in Python: numbers by value whatever their types, the others by
\* type and content
PyNumeric(v) == v.type \in {"int", "float", "bool"}
Tenths(v) == IF v.type = "float" THEN v.num ELSE v.num * 10
PyEq(x, y) ==
    IF PyNumeric(x) \/ PyNumeric(y)
    THEN PyNumeric(x) /\ PyNumeric(y) /\ Tenths(x) = Tenths(y)
    ELSE /\ x.type = y.type /\ x.text = y.text /\ x.num = y.num
         /\ x.hashing = y.hashing

\* Neither numeric nor a string: the value gets the synthetic key
IsFallbackInput(v) == v.type \notin num_types \cup {str_type}

IsDigitRun(s) == s # <<>> /\ \A i \in 1..Len(s) : IsDigit(s[i])

\* The integer a run of decimal digits denotes
RECURSIVE DigitsVal(_)
DigitsVal(s) ==
    IF s = <<>> THEN 0
    ELSE DigitsVal(SubSeq(s, 1, Len(s) - 1)) * 10 + IntOf(s[Len(s)])

\* The number of decimal digits of n >= 0
NumDigits(n) == Len(NatStr(n))

Compared == fn = "natural" /\ pc = "done"

DoctestSorted == <<<<"1", "s", "t">>, <<"9">>, <<"1", "0", "t", "h">>, <<"a">>, <<"Z">>>>

\* C2 (as stated): two strings that are each a run of decimal digits of any
\* length order by the integer values of the runs: natural(a) < natural(b)
\* exactly when int(a) < int(b), with the default fmt.
C2_DigitRunsOfAnyLength ==
    (Compared /\ a.type = "str" /\ b.type = "str"
        /\ IsDigitRun(a.text) /\ IsDigitRun(b.text))
    => (cmp = "lt" <=> DigitsVal(a.text) < DigitsVal(b.text))

\* C2 (amended): digit runs whose values have at most 9 decimal digits (the
\* width of the default fmt) order by magnitude: for two digit-run strings,
\* and for two strings whose keys differ first in a digit run, natural(a) <
\* natural(b) exactly when the value of a's run is less than that of b's;
\* natural('9') < natural('10th'), and sorting the doctest's items by natural
\* gives ['1st', '9', '10th', 'a', 'Z'].
C2_DigitRunsUpToFmtWidth ==
    /\ (Compared /\ a.type = "str" /\ b.type = "str") =>
          /\ (IsDigitRun(a.text) /\ IsDigitRun(b.text)
                /\ NumDigits(DigitsVal(a.text)) <= FmtWidth
                /\ NumDigits(DigitsVal(b.text)) <= FmtWidth)
             => (cmp = "lt" <=> DigitsVal(a.text) < DigitsVal(b.text))
          /\ LET ta == Scan(a.text, 1, <<>>)
                 tb == Scan(b.text, 1, <<>>)
             IN  \A i \in 1..Min(Len(ta), Len(tb)) :
                    (/\ SubSeq(ta, 1, i - 1) = SubSeq(tb, 1, i - 1)
                     /\ ta[i].isnum /\ tb[i].isnum /\ ta[i].n # tb[i].n
                     /\ NumDigits(ta[i].n) <= FmtWidth
                     /\ NumDigits(tb[i].n) <= FmtWidth)
                    => (cmp = "lt" <=> ta[i].n < tb[i].n)
          /\ (a.text = <<"9">> /\ b.text = <<"1", "0", "t", "h">>) => cmp = "lt"
    /\ (fn = "sorted" /\ pc = "done") => sortedItems = DoctestSorted

C2_Witness ==
    /\ Compared /\ a.type = "str" /\ b.type = "str"
    /\ a.text = <<"9">> /\ b.text = <<"1", "0">>
    /\ cmp = "lt"

\* C3: for any two inputs of any types, computing the two keys and comparing
\* them never raises, and exactly one of <, ==, > holds.
C3_NaturalNeverRaises ==
    /\ (fn = "natural" /\ pc \in {"compare", "done"}) =>
          keyA.exc = "none" /\ keyB.exc = "none"
    /\ Compared => Cardinality({r \in {"lt", "eq", "gt"} : cmp = r}) = 1

C10_FallbackKeysOrder ==
    (Compared /\ IsFallbackInput(a)) =>
        /\ keyA.exc = "none"
        /\ Len(keyA.key) = 3
        /\ keyA.key[1] = StrItem(<<>>)
        /\ keyA.key[2] = StrItem(ClassName(a))
        /\ b = PyStrValue(<<>>) => cmp = "gt"
        /\ (b.type = "str" /\ b.text # <<>>) => cmp = "lt"
        /\ b.type \in num_types => cmp = "lt"
        /\ (IsFallbackInput(b) /\ ClassName(a) # ClassName(b))
              => cmp = StrCmp(ClassName(a), ClassName(b))

----------------------------------------------------------------------------
(* nan_first, nan_last *)

\* A number as the code sees it: None, or a float that is NaN, -inf, inf or
\* finite with value v
Num(k, v) == [kind |-> k, v |-> v]
None == Num("None", 0)
nan == Num("nan", 0)
inf == Num("inf", 0)
neg_inf == Num("-inf", 0)
Finite(v) == Num("finite", v)

\* math.isnan
isnan(number) == number.kind = "nan"

\* x < y of two floats: false whenever one is NaN
FloatLess(x, y) ==
    /\ ~isnan(x) /\ ~isnan(y)
    /\ \/ x.kind = "-inf" /\ y.kind # "-inf"
       \/ x.kind = "finite" /\ y.kind = "inf"
       \/ x.kind = "finite" /\ y.kind = "finite" /\ x.v < y.v

\* number is None or isnan( number )
non_value(number) == number = None \/ isnan(number)

\* A faulty variant: the non-values are sent to the high end
nan_first_high(number) == IF non_value(number) THEN inf ELSE number

nan_first(number) == IF non_value(number) THEN neg_inf ELSE number

nan_last(number) == IF non_value(number) THEN inf ELSE number

\* The key function the client sorts by
KeyOf(f, number) == IF f = "nan_first" THEN nan_first(number) ELSE nan_last(number)

\* list.insert of x into the sorted list srt, after the items whose keys are
\* not greater
RECURSIVE InsertNum(_, _, _)
InsertNum(f, srt, x) ==
    IF srt = <<>> THEN <<x>>
    ELSE IF FloatLess(KeyOf(f, x), KeyOf(f, Head(srt)))
         THEN <<x>> \o srt
         ELSE <<Head(srt)>> \o InsertNum(f, Tail(srt), x)

\* sorted( ns, key=f ): a stable sort
RECURSIVE SortedNums(_, _)
SortedNums(f, ns) ==
    IF ns = <<>> THEN <<>>
    ELSE InsertNum(f, SortedNums(f, SubSeq(ns, 1, Len(ns) - 1)), ns[Len(ns)])

MaxNum == 1
MaxList == 3

Numbers == { Finite(v) : v \in (0 - MaxNum)..MaxNum } \cup {None, nan, inf, neg_inf}

InitNan ==
    /\ InitAxisIdle
    /\ InitNaturalIdle
    /\ fn \in {"nan_first", "nan_last"}
    /\ pc = "call"
    /\ nums \in SeqsUpTo(Numbers, MaxList)
    /\ keys = <<>>
    /\ sortedNums = <<>>

\* The keys of the items: nan_first( number ) of each
ApplyNanFirst ==
    /\ fn = "nan_first"
    /\ pc = "call"
    /\ keys' = [i \in 1..Len(nums) |-> nan_first(nums[i])]
    /\ pc' = "sort"
    /\ UNCHANGED <<fn, axisVars, natVars, nums, sortedNums>>

\* The keys of the items: nan_last( number ) of each
ApplyNanLast ==
    /\ fn = "nan_last"
    /\ pc = "call"
    /\ keys' = [i \in 1..Len(nums) |-> nan_last(nums[i])]
    /\ pc' = "sort"
    /\ UNCHANGED <<fn, axisVars, natVars, nums, sortedNums>>

\* The items in ascending order of their keys
SortNums ==
    /\ fn \in {"nan_first", "nan_last"}
    /\ pc = "sort"
    /\ sortedNums' = SortedNums(fn, nums)
    /\ pc' = "done"
    /\ UNCHANGED <<fn, axisVars, natVars, nums, keys>>

NextNan == ApplyNanFirst \/ ApplyNanLast \/ SortNums

SpecNan == InitNan /\ [][NextNan]_vars

----------------------------------------------------------------------------
(* The three entry points together *)

Init == InitAxis \/ InitNatural \/ InitNan

Next == NextAxis \/ NextNatural \/ NextNan

Spec == Init /\ [][Next]_vars

----------------------------------------------------------------------------
(* Claims about nan_first and nan_last *)

IsFinite(number) == number.kind = "finite"

\* C6: every non-value (None or NaN) has a nan_first key less than that of
\* every finite number and a nan_last key greater than it, a finite number is
\* its own key, and so a sort by nan_first puts the non-values before all
\* finite numbers, a sort by nan_last after them, the finite numbers in
\* ascending order.
C6_NonValuesCollate ==
    /\ (fn \in {"nan_first", "nan_last"} /\ pc \in {"sort", "done"}) =>
          \A i, j \in 1..Len(nums) :
              /\ IsFinite(nums[j]) => keys[j] = nums[j]
              /\ (non_value(nums[i]) /\ IsFinite(nums[j])) =>
                    IF fn = "nan_first"
                    THEN FloatLess(keys[i], keys[j])
                    ELSE FloatLess(keys[j], keys[i])
    /\ (fn \in {"nan_first", "nan_last"} /\ pc = "done") =>
          /\ Len(sortedNums) = Len(nums)
          /\ \A i, j \in 1..Len(sortedNums) :
                /\ (non_value(sortedNums[i]) /\ IsFinite(sortedNums[j])) =>
                      IF fn = "nan_first" THEN i < j ELSE j < i
                /\ (IsFinite(sortedNums[i]) /\ IsFinite(sortedNums[j]) /\ i < j)
                      => sortedNums[i].v <= sortedNums[j].v

C6_Witness ==
    /\ fn = "nan_first" /\ pc = "done"
    /\ Len(nums) = 3
    /\ IsFinite(nums[1]) /\ nums[2] = None /\ nums[3] = nan
    /\ sortedNums = <<None, nan, nums[1]>>

====
